---- MODULE Spec2Model ----
(***************************************************************************)
(* PeakGuard AI (src/app.py): the Streamlit script as a state machine.     *)
(*                                                                         *)
(* The state is st.session_state (auto_mode, battery_active, hvac_active), *)
(* the values of the control-panel widgets, the output of the load         *)
(* predictor for those widget values, and `run`: every value the last      *)
(* execution of the script computed (sections 4 and 5 of app.py).          *)
(* Every operator interaction re-executes the whole script, so every       *)
(* action ends with run' = Script(...) of the new state.                   *)
(*                                                                         *)
(* Power values are Python floats in kW.  They are held here as integers   *)
(* in units of 1/600 kW (Kw(1) = 600): with widget values that are whole   *)
(* kW, raw_pred * 0.15 and capacity * efficiency * 0.95 are then exact     *)
(* integers, so the arithmetic below is the exact real arithmetic of the   *)
(* script (floating-point rounding is not modelled).  Money computed from  *)
(* power (the costs) is in the same 1/600 units; the rate and the penalty  *)
(* are plain numbers.                                                      *)
(***************************************************************************)
EXTENDS Integers, FiniteSets, Sequences, TLC

VARIABLES auto_mode, battery_active, hvac_active,
          sq_ft, contract_limit, solar_capacity, hour_pick,
          predicted, run

vars == <<auto_mode, battery_active, hvac_active,
          sq_ft, contract_limit, solar_capacity, hour_pick,
          predicted, run>>

toggles == <<auto_mode, battery_active, hvac_active>>
widgets == <<sq_ft, contract_limit, solar_capacity, hour_pick, predicted>>

----------------------------------------------------------------------------
(* Bounds of the widget values explored *)

MaxPred == 3
MaxLimit == 2
MaxCap == 1
MaxArea == 1

Kw(x) == x * 600

Max0(x) == IF x > 0 THEN x ELSE 0

Abs(x) == IF x < 0 THEN 0 - x ELSE x

(* st.slider("Hour of Day (24h)", 0, 23, 14) *)
Hours == 0 .. 23

(* model.predict + expm1 + the 200000 fallback: an opaque value that may be
   negative (the fallback returns the raw log output) *)
PredValues == { Kw(300 * k) : k \in -1 .. MaxPred }

(* st.number_input without min_value: negative values are accepted *)
LimitValues == { Kw(250 * k) : k \in -1 .. MaxLimit }
CapValues == { Kw(500 * k) : k \in -1 .. MaxCap }
AreaValues == { 5000 * k : k \in 0 .. MaxArea }

----------------------------------------------------------------------------
(* 4. CALCULATION CORE & AUTOMATION LOGIC *)

ElectricityRateSwapped(hour) ==
    IF 13 <= hour /\ hour <= 16 THEN 18
    ELSE IF 16 <= hour /\ hour <= 21 THEN 24
    ELSE 10

ElectricityRate(hour) ==
    IF 16 <= hour /\ hour <= 21 THEN 24
    ELSE IF 13 <= hour /\ hour <= 16 THEN 18
    ELSE 10

RawPred(p) == Max0(p)

SolarGenNoWindow(cap, hour) ==
    (cap * (6 - Abs(hour - 13)) * 95) \div 600

SolarGen(cap, hour) ==
    IF 7 <= hour /\ hour <= 18
    THEN (cap * Max0(6 - Abs(hour - 13)) * 95) \div 600
    ELSE 0

BaseLoad(raw, solar) == Max0(raw - solar)

PotentialBreach(base, limit) == base > limit

AutoTriggeredAlways(auto, potential) == auto

AutoTriggered(auto, potential) == auto /\ potential

BatteryContribManual(trig, bat) == IF bat THEN Kw(50) ELSE 0

BatteryContrib(trig, bat) ==
    IF trig THEN Kw(50)
    ELSE IF bat THEN Kw(50) ELSE 0

HvacContrib(trig, hvac, raw) ==
    IF trig THEN (raw * 15) \div 100
    ELSE IF hvac THEN (raw * 15) \div 100 ELSE 0

MitigationImpact(trig, bat, hvac, raw) ==
    IF trig THEN Kw(50) + (raw * 15) \div 100
    ELSE (IF bat THEN Kw(50) ELSE 0) + (IF hvac THEN (raw * 15) \div 100 ELSE 0)

NetLoadNoFloor(raw, solar, mitigation) == raw - solar - mitigation

NetLoad(raw, solar, mitigation) == Max0(raw - solar - mitigation)

Breach(net, limit) == net > limit

Excess(net, limit) == net - limit

Penalty(breach) == IF breach THEN 25000 ELSE 0

(* 5. DASHBOARD UI: Determine UI State *)
IsMitigated(bat, hvac) == bat \/ hvac

Title(trig, breach, mitigated) ==
    IF trig THEN "AUTO-PILOT ENGAGED"
    ELSE IF breach THEN "CRITICAL BREACH DETECTED"
    ELSE IF mitigated THEN "MITIGATION ACTIVE"
    ELSE "SYSTEM OPTIMIZED"

(* One execution of the script, top to bottom *)
Script(auto, bat, hvac, limit, cap, hour, p) ==
    LET rate == ElectricityRate(hour)
        raw == RawPred(p)
        solar == SolarGen(cap, hour)
        base == BaseLoad(raw, solar)
        potential == PotentialBreach(base, limit)
        trig == AutoTriggered(auto, potential)
        mitigation == MitigationImpact(trig, bat, hvac, raw)
        net == NetLoad(raw, solar, mitigation)
        breach == Breach(net, limit)
    IN  [ electricity_rate |-> rate,
          raw_pred |-> raw,
          solar_gen |-> solar,
          base_load |-> base,
          potential_breach |-> potential,
          auto_triggered |-> trig,
          battery_contrib |-> BatteryContrib(trig, bat),
          hvac_contrib |-> HvacContrib(trig, hvac, raw),
          mitigation_impact |-> mitigation,
          net_load |-> net,
          breach |-> breach,
          excess |-> Excess(net, limit),
          penalty |-> Penalty(breach),
          cost_no_solar |-> raw * rate,
          cost_with_solar |-> net * rate,
          money_saved |-> raw * rate - net * rate,
          is_mitigated |-> IsMitigated(bat, hvac),
          title |-> Title(trig, breach, IsMitigated(bat, hvac)) ]

Rerun ==
    run' = Script(auto_mode', battery_active', hvac_active',
                  contract_limit', solar_capacity', hour_pick', predicted')

----------------------------------------------------------------------------
(* 2. SESSION STATE, and the widgets' default values *)

Init ==
    /\ auto_mode = FALSE
    /\ battery_active = FALSE
    /\ hvac_active = FALSE
    /\ sq_ft \in { a \in AreaValues : a > 0 }
    /\ contract_limit = Kw(500)
    /\ solar_capacity = Kw(100)
    /\ hour_pick = 14
    /\ predicted \in PredValues
    /\ run = Script(auto_mode, battery_active, hvac_active,
                    contract_limit, solar_capacity, hour_pick, predicted)

----------------------------------------------------------------------------
(* 3. CONTROL PANEL *)

ToggleAutoPilotClearing ==
    /\ auto_mode' = ~auto_mode
    /\ battery_active' = FALSE
    /\ hvac_active' = FALSE
    /\ UNCHANGED widgets
    /\ Rerun

ToggleAutoPilot ==
    /\ auto_mode' = ~auto_mode
    /\ UNCHANGED <<battery_active, hvac_active>>
    /\ UNCHANGED widgets
    /\ Rerun

(* Type and Area only feed the predictor *)
SetBuildingProfile ==
    \E a \in AreaValues, p \in PredValues :
        /\ sq_ft' = a
        /\ predicted' = p
        /\ UNCHANGED <<contract_limit, solar_capacity, hour_pick>>
        /\ UNCHANGED toggles
        /\ Rerun

SetContractLimit ==
    \E l \in LimitValues :
        /\ contract_limit' = l
        /\ UNCHANGED <<sq_ft, solar_capacity, hour_pick, predicted>>
        /\ UNCHANGED toggles
        /\ Rerun

SetSolarCapacity ==
    \E c \in CapValues :
        /\ solar_capacity' = c
        /\ UNCHANGED <<sq_ft, contract_limit, hour_pick, predicted>>
        /\ UNCHANGED toggles
        /\ Rerun

(* Outdoor Temp, Load 1hr ago, Load 24hr ago only feed the predictor *)
SetEnvironmentHistory ==
    \E p \in PredValues :
        /\ predicted' = p
        /\ UNCHANGED <<sq_ft, contract_limit, solar_capacity, hour_pick>>
        /\ UNCHANGED toggles
        /\ Rerun

(* the hour feeds the predictor (hour_sin, hour_cos), the tariff and the sun *)
SetHour ==
    \E h \in Hours, p \in PredValues :
        /\ hour_pick' = h
        /\ predicted' = p
        /\ UNCHANGED <<sq_ft, contract_limit, solar_capacity>>
        /\ UNCHANGED toggles
        /\ Rerun

----------------------------------------------------------------------------
(* 5. DASHBOARD UI: INTERACTIVE CONTROLS.  A button exists only in the
   branch the last execution rendered. *)

DispatchBatteryAnyBreach ==
    /\ run.breach
    /\ battery_active' = TRUE
    /\ UNCHANGED <<auto_mode, hvac_active>>
    /\ UNCHANGED widgets
    /\ Rerun

DispatchBattery ==
    /\ ~run.auto_triggered
    /\ run.breach
    /\ battery_active' = TRUE
    /\ UNCHANGED <<auto_mode, hvac_active>>
    /\ UNCHANGED widgets
    /\ Rerun

OptimizeHVAC ==
    /\ ~run.auto_triggered
    /\ run.breach
    /\ hvac_active' = TRUE
    /\ UNCHANGED <<auto_mode, battery_active>>
    /\ UNCHANGED widgets
    /\ Rerun

ResetSystem ==
    /\ ~run.auto_triggered
    /\ ~run.breach
    /\ run.is_mitigated
    /\ battery_active' = FALSE
    /\ hvac_active' = FALSE
    /\ UNCHANGED auto_mode
    /\ UNCHANGED widgets
    /\ Rerun

(* any interaction that changes no value above (the download button, an
   unchanged widget): the script runs again on the same state *)
Recompute ==
    /\ UNCHANGED toggles
    /\ UNCHANGED widgets
    /\ Rerun

Next ==
    \/ ToggleAutoPilot
    \/ SetBuildingProfile
    \/ SetContractLimit
    \/ SetSolarCapacity
    \/ SetEnvironmentHistory
    \/ SetHour
    \/ DispatchBattery
    \/ OptimizeHVAC
    \/ ResetSystem
    \/ Recompute

Spec == Init /\ [][Next]_vars

----------------------------------------------------------------------------
(* Vocabulary of the specification, in terms of the script's values *)

PolicyApplied ==
    IF run.auto_triggered THEN "Auto"
    ELSE IF run.is_mitigated THEN "Manual"
    ELSE "None"

InvalidInput ==
    \/ sq_ft <= 0
    \/ contract_limit < 0
    \/ solar_capacity < 0
    \/ hour_pick \notin 0 .. 23

----------------------------------------------------------------------------
(* C1. Autopilot preemption: whenever autopilot is enabled and the base load
   max(0, raw - solar) exceeds the contract limit, the policy is Auto, the
   battery contributes 50 kW, HVAC contributes 0.15 x raw, the total
   mitigation is their sum, and the result is the one the script computes
   with both manual flags off (the manual flags have no influence). *)
C1_AutopilotPreemption ==
    (auto_mode /\ Max0(run.raw_pred - run.solar_gen) > contract_limit) =>
        /\ PolicyApplied = "Auto"
        /\ run.battery_contrib = Kw(50)
        /\ run.hvac_contrib * 100 = 15 * run.raw_pred
        /\ run.mitigation_impact = run.battery_contrib + run.hvac_contrib
        /\ LET off == Script(auto_mode, FALSE, FALSE, contract_limit,
                             solar_capacity, hour_pick, predicted)
           IN  /\ run.battery_contrib = off.battery_contrib
               /\ run.hvac_contrib = off.hvac_contrib
               /\ run.mitigation_impact = off.mitigation_impact
               /\ run.net_load = off.net_load
               /\ run.breach = off.breach

(* the specification's case: battery flag set, HVAC flag clear, autopilot
   preempting on a positive load *)
C1_Witness ==
    /\ auto_mode /\ battery_active /\ ~hvac_active
    /\ run.base_load > contract_limit
    /\ run.auto_triggered
    /\ run.hvac_contrib > 0

(* C2. Final breach verdict: breached = (net > limit), excess =
   max(0, net - limit), so the excess is 0 when not breached, and the penalty
   is 25000 exactly when breached and 0 otherwise. *)
C2_FinalBreachVerdict ==
    /\ run.breach = (run.net_load > contract_limit)
    /\ run.excess = Max0(run.net_load - contract_limit)
    /\ (~run.breach => run.excess = 0)
    /\ run.penalty = (IF run.breach THEN 25000 ELSE 0)

(* C3. Toggle mutation contract: a manual flag that is true becomes false
   only in a reset step; a reset step clears both flags; a step that changes
   autoPilotEnabled, and every step other than the two dispatch buttons and
   the reset (all of which run an evaluation cycle), leaves both manual
   flags unchanged. *)
C3_ToggleMutationContract ==
    [][ /\ (battery_active /\ ~battery_active') => ResetSystem
        /\ (hvac_active /\ ~hvac_active') => ResetSystem
        /\ ResetSystem => (~battery_active' /\ ~hvac_active')
        /\ (auto_mode' # auto_mode) =>
               (battery_active' = battery_active /\ hvac_active' = hvac_active)
        /\ ~(DispatchBattery \/ OptimizeHVAC \/ ResetSystem) =>
               (battery_active' = battery_active /\ hvac_active' = hvac_active)
      ]_vars

(* both manual flags still set while autopilot, switched on later, preempts *)
C3_Witness ==
    /\ battery_active /\ hvac_active
    /\ auto_mode /\ run.auto_triggered

(* C4. No breach and no manual flags means no policy: with base load <=
   limit and both manual flags false, for either autopilot setting, the
   policy is None, autopilot is not triggered and all contributions are 0. *)
C4_NoBreachNoPolicy ==
    (run.base_load <= contract_limit /\ ~battery_active /\ ~hvac_active) =>
        /\ PolicyApplied = "None"
        /\ ~run.auto_triggered
        /\ run.battery_contrib = 0
        /\ run.hvac_contrib = 0
        /\ run.mitigation_impact = 0

(* autopilot enabled, a positive load under the limit, no manual flag *)
C4_Witness ==
    /\ auto_mode /\ ~battery_active /\ ~hvac_active
    /\ run.raw_pred > 0
    /\ run.base_load <= contract_limit
    /\ run.mitigation_impact = 0

(* C5. Net load floor: net = max(0, raw - solar - mitigation) in every
   cycle, so the net load is never negative. *)
C5_NetLoadFloor ==
    /\ run.net_load >= 0
    /\ run.net_load =
           Max0(run.raw_pred - run.solar_gen - run.mitigation_impact)

(* solar generation plus mitigation exceed the predicted load *)
C5_Witness ==
    /\ run.solar_gen > 0
    /\ run.mitigation_impact > 0
    /\ run.raw_pred > 0
    /\ run.raw_pred - run.solar_gen - run.mitigation_impact < 0
    /\ run.net_load = 0

(* C6. Tariff: 24.0 for hours 16..21, 18.0 for hours 13..15, 10.0 for every
   other hour. *)
C6_TariffResolver ==
    run.electricity_rate =
        (IF hour_pick \in 16 .. 21 THEN 24
         ELSE IF hour_pick \in 13 .. 15 THEN 18
         ELSE 10)

(* the boundary hour both conditions of the script accept *)
C6_Witness == hour_pick = 16 /\ run.electricity_rate = 24

(* C7. Solar: for capacity >= 0, generation is 0 outside hours 7..18 and
   capacity x 0.95 x max(0, 1 - |hour - 13| / 6) inside (both sides of the
   equation multiplied by 600). *)
C7_SolarEstimator ==
    solar_capacity >= 0 =>
        /\ (hour_pick \notin 7 .. 18 => run.solar_gen = 0)
        /\ (hour_pick \in 7 .. 18 =>
               run.solar_gen * 600 =
                   solar_capacity * 95 * Max0(6 - Abs(hour_pick - 13)))
        /\ (hour_pick = 13 => run.solar_gen * 100 = solar_capacity * 95)

(* a positive capacity at night *)
C7_Witness ==
    /\ solar_capacity > 0
    /\ hour_pick = 20
    /\ run.solar_gen = 0

(* C8. InvalidInput rejection: with a non-positive area, a negative contract
   limit or solar capacity, or an hour outside 0..23, the execution computes
   no tariff, solar, mitigation, net load, verdict or financial value. *)
C8_InvalidInputRejected ==
    InvalidInput =>
        DOMAIN run \cap { "electricity_rate", "solar_gen", "mitigation_impact",
                          "net_load", "breach", "money_saved" } = {}

(* C9. Autopilot neutralizes the threat: whenever autopilot is triggered the
   verdict is not breached (net <= limit) and the penalty is 0. *)
C9_AutopilotNeutralizes ==
    run.auto_triggered =>
        /\ ~run.breach
        /\ run.net_load <= contract_limit
        /\ run.penalty = 0

(* C10. Mitigation never creates a breach: breached implies base load >
   limit; so with autopilot enabled a breached result has autopilot
   triggered, the CRITICAL BREACH DETECTED state is not shown, and no manual
   flag goes from false to true in a step that keeps autopilot enabled. *)
C10_NoManualDispatchUnderAutopilot ==
    /\ [](/\ run.breach => run.base_load > contract_limit
          /\ (auto_mode /\ run.breach) => run.auto_triggered
          /\ auto_mode => run.title # "CRITICAL BREACH DETECTED")
    /\ [][ (auto_mode /\ auto_mode') =>
               /\ battery_active' => battery_active
               /\ hvac_active' => hvac_active ]_vars

(* autopilot enabled, the result still breached, a manual flag still clear *)
C10_Witness ==
    /\ auto_mode /\ run.breach /\ run.auto_triggered
    /\ ~battery_active

====
